---- MODULE Spec2Model ----
(***************************************************************************)
(* Model of src/app.js: the artwork catalogue.  The state is the in-memory *)
(* array `artworks`, the document data.json, the upload directory, and the *)
(* requests that are in flight in the single Node.js process.              *)
(*                                                                         *)
(* JavaScript values are modelled by what the code can observe of them:    *)
(*   - a route parameter :id is a string, modelled as a sequence of        *)
(*     one-character strings, so that property lookup, parseInt and the    *)
(*     numeric conversion of Array.prototype.splice are computed;          *)
(*   - an array is its indexed elements (a hole reads as undefined) plus   *)
(*     its non-index own properties (artworks["-1"] = ... creates one);    *)
(*   - an object is a record of the five artwork fields; a field that is   *)
(*     undefined and a field that is not there read the same and are both  *)
(*     Undefined (JSON.stringify drops the former, a reload reads the      *)
(*     latter as undefined).                                               *)
(***************************************************************************)
EXTENDS Integers, Sequences, FiniteSets, TLC

\* Requests accepted by the server in one behaviour.
MaxOps == 3
\* Requests received and waiting for their handler at one time.
MaxInflight == 1

(***************************************************************************)
(* Values                                                                  *)
(***************************************************************************)
Undefined == "<undefined>"
Null == "<null>"

Blank(kind) ==
  [kind |-> kind, title |-> Undefined, date |-> Undefined,
   description |-> Undefined, image |-> Undefined, liked |-> Undefined]

\* undefined: what a hole, an index past the end or a missing property reads as
Undef == Blank("undefined")
\* the JSON literal null as an array element
NullElem == Blank("null")
\* a number primitive (artworks.length); every artwork field of it reads undefined
NumberVal == Blank("number")

\* JavaScript truthiness of a field value (strings, null, undefined, booleans)
Truthy(v) == v \notin {Undefined, Null, "", "false"}

\* the ! operator on the liked field
Negate(v) == IF Truthy(v) THEN "false" ELSE "true"

(***************************************************************************)
(* Route parameters and their conversions                                  *)
(***************************************************************************)
LengthKey == <<"l", "e", "n", "g", "t", "h">>
NaNKey == <<"N", "a", "N">>

Ids == { <<"0">>, <<"1">>, <<"-", "1">>, <<"1", ".", "5">>, LengthKey }

DigitChars == <<"0", "1", "2", "3", "4", "5", "6", "7", "8", "9">>

IsDigit(c) == \E i \in DOMAIN DigitChars : DigitChars[i] = c

DigitVal(c) == (CHOOSE i \in DOMAIN DigitChars : DigitChars[i] = c) - 1

AllDigits(s) == \A i \in DOMAIN s : IsDigit(s[i])

RECURSIVE NumVal(_)
NumVal(s) ==
  IF s = <<>> THEN 0
  ELSE NumVal(SubSeq(s, 1, Len(s) - 1)) * 10 + DigitVal(s[Len(s)])

RECURSIVE NumStr(_)
NumStr(n) ==
  IF n < 10 THEN <<DigitChars[n + 1]>>
  ELSE NumStr(n \div 10) \o <<DigitChars[(n % 10) + 1]>>

\* the longest prefix of s made of digits
RECURSIVE DigitPrefix(_)
DigitPrefix(s) ==
  IF s = <<>> \/ ~IsDigit(s[1]) THEN <<>>
  ELSE <<s[1]>> \o DigitPrefix(Tail(s))

\* A property key that names an array element: a canonical decimal numeral.
IsArrayIndex(s) ==
  /\ Len(s) >= 1
  /\ AllDigits(s)
  /\ (Len(s) = 1 \/ s[1] # "0")

Unsigned(s) == IF s # <<>> /\ s[1] = "-" THEN Tail(s) ELSE s

Sign(s) == IF s # <<>> /\ s[1] = "-" THEN -1 ELSE 1

\* ToNumber of a string is a number (not NaN): digits, optionally a fraction
IsDecimal(s) ==
  LET u == Unsigned(s)
      ip == DigitPrefix(u)
      rest == SubSeq(u, Len(ip) + 1, Len(u))
  IN  /\ Len(ip) >= 1
      /\ \/ rest = <<>>
         \/ rest[1] = "." /\ AllDigits(Tail(rest))

\* ToIntegerOrInfinity(ToNumber(s)): NaN becomes 0, a fraction is truncated
ToInteger(s) ==
  IF IsDecimal(s) THEN Sign(s) * NumVal(DigitPrefix(Unsigned(s))) ELSE 0

\* parseInt(s): optional sign, then the leading digits; NaN when there is none
ParseInt(s) ==
  LET ip == DigitPrefix(Unsigned(s))
  IN  IF ip = <<>> THEN [nan |-> TRUE, val |-> 0]
      ELSE [nan |-> FALSE, val |-> Sign(s) * NumVal(ip)]

\* ToString of a number, as used when a number is a property key
NumberToKey(n) ==
  IF n.nan THEN NaNKey
  ELSE IF n.val < 0 THEN <<"-">> \o NumStr(-n.val)
  ELSE NumStr(n.val)

(***************************************************************************)
(* Arrays                                                                  *)
(***************************************************************************)
\* the non-index, non-length keys a request may name
PropKeys == { id \in Ids : ~IsArrayIndex(id) /\ id # LengthKey }

NoProps == [k \in PropKeys |-> Undef]

EmptyArray == [kind |-> "array", elems |-> <<>>, props |-> NoProps]

\* what `let artworks` holds when data.json is the JSON literal null
NullValue == [kind |-> "null", elems |-> <<>>, props |-> NoProps]

\* artworks[key]
Lookup(art, key) ==
  IF art.kind # "array" THEN Undef
  ELSE IF IsArrayIndex(key)
       THEN IF NumVal(key) < Len(art.elems) THEN art.elems[NumVal(key) + 1]
            ELSE Undef
  ELSE IF key = LengthKey THEN NumberVal
  ELSE IF key \in PropKeys THEN art.props[key]
  ELSE Undef

\* artworks[key] = v, for a key other than "length"
Assign(art, key, v) ==
  IF IsArrayIndex(key)
  THEN LET n == NumVal(key) + 1
           len == IF n > Len(art.elems) THEN n ELSE Len(art.elems)
       IN  [art EXCEPT !.elems =
              [i \in 1..len |->
                 IF i = n THEN v
                 ELSE IF i <= Len(art.elems) THEN art.elems[i]
                 ELSE Undef]]
  ELSE IF key \in PropKeys THEN [art EXCEPT !.props[key] = v]
  ELSE art

\* artworks.splice(id, 1): the start is converted with ToIntegerOrInfinity, a
\* negative start counts from the end, and at most one element is removed
SpliceStart(len, id) ==
  LET rel == ToInteger(id)
  IN  IF rel < 0 THEN (IF len + rel < 0 THEN 0 ELSE len + rel)
      ELSE IF rel > len THEN len ELSE rel

\* splice(id) without the count: everything from the start on is removed
SpliceToEnd(art, id) ==
  [art EXCEPT !.elems = SubSeq(@, 1, SpliceStart(Len(@), id))]

Splice(art, id) ==
  LET len == Len(art.elems)
      start == SpliceStart(len, id)
  IN  IF start >= len THEN art
      ELSE [art EXCEPT !.elems =
              [i \in 1..(len - 1) |->
                 IF i <= start THEN art.elems[i] ELSE art.elems[i + 1]]]

(***************************************************************************)
(* data.json                                                               *)
(***************************************************************************)
AbsentDoc == [kind |-> "absent", elems |-> <<>>]
\* content that JSON.parse rejects (also a partially written document)
InvalidDoc == [kind |-> "invalid", elems |-> <<>>]
\* valid JSON that is not an array; the literal null stands for these
NullDoc == [kind |-> "null", elems |-> <<>>]
ArrayDoc(elems) == [kind |-> "array", elems |-> elems]

InitialDocs == { AbsentDoc, InvalidDoc, NullDoc, ArrayDoc(<<>>) }

\* JSON.stringify(artworks, null, 2): a hole is written as null, the array's
\* non-index properties are not written
Stringify(art) ==
  ArrayDoc([i \in 1..Len(art.elems) |->
              IF art.elems[i].kind = "undefined" THEN NullElem
              ELSE art.elems[i]])

\* JSON.parse(fs.readFileSync('data.json')) inside try/catch
LoadArtworks(doc) ==
  IF doc.kind \in {"absent", "invalid"} THEN EmptyArray
  ELSE IF doc.kind = "null" THEN NullValue
  ELSE [kind |-> "array", elems |-> doc.elems, props |-> NoProps]

(***************************************************************************)
(* Requests                                                                *)
(***************************************************************************)
Body(t, d, s) == [title |-> t, date |-> d, description |-> s]

NoBody == Body(Undefined, Undefined, Undefined)

\* form bodies of POST /addArtwork: complete, and lacking one required field
CreateBodies ==
  { Body("A", "d1", "p1"), Body("", "d1", "p1"),
    Body("A", Undefined, "p1"), Body("A", "d1", "") }

\* form bodies of POST /updateArtwork/:id; the handler checks nothing
UpdateBodies == { Body("B", "d2", "p2"), Body(Undefined, "d2", "") }

\* the names multer gives to uploads, in order (timestamp-random-originalname)
UploadNames == <<"x1", "x2", "x3", "x4">>

Request(op, id, body, image) ==
  [op |-> op, id |-> id, body |-> body, image |-> image]

MutatingOps == {"add", "update", "delete", "toggle"}

\* the empty key: a route parameter is never empty
NoKey == <<>>

\* the key the handler reads artworks with; none in the routes without :id
ReadKey(req) ==
  IF req.op = "toggle" THEN NumberToKey(ParseInt(req.id))
  ELSE IF req.op \in {"update", "delete", "get"} THEN req.id
  ELSE NoKey

(***************************************************************************)
(* Handlers: the result of running a handler body on the array `art` with  *)
(* the upload directory `ast`, where `existing` is the value the handler   *)
(* read from artworks[id].  status is "redirect", "message" (the text      *)
(* reply of a rejected form), "page" or "throw" (Express answers 500);     *)
(* save tells whether saveArtwork() is called.                             *)
(***************************************************************************)
Outcome(art, ast, save, status) ==
  [art |-> art, ast |-> ast, save |-> save, status |-> status]

Throw(art, ast) == Outcome(art, ast, FALSE, "throw")

\* if (title)
ValidFormTitleOnly(body) == Truthy(body.title)

\* if (title && date && description)
ValidForm(body) ==
  Truthy(body.title) /\ Truthy(body.date) /\ Truthy(body.description)

NewArtwork(body, image) ==
  [kind |-> "obj", title |-> body.title, date |-> body.date,
   description |-> body.description, image |-> image, liked |-> "false"]

\* artworks.unshift(...): the new record is put first
AddArtworkUnshift(req, art, ast) ==
  IF ValidForm(req.body)
  THEN IF art.kind # "array" THEN Throw(art, ast)
       ELSE Outcome([art EXCEPT !.elems = <<NewArtwork(req.body, req.image)>> \o @],
                    ast, TRUE, "redirect")
  ELSE Outcome(art, ast, FALSE, "message")

AddArtwork(req, art, ast) ==
  IF ValidForm(req.body)
  THEN IF art.kind # "array" THEN Throw(art, ast)
       ELSE Outcome([art EXCEPT !.elems = Append(@, NewArtwork(req.body, req.image))],
                    ast, TRUE, "redirect")
  ELSE Outcome(art, ast, FALSE, "message")

\* { title, date, description }: the record is rebuilt without ...existing
UpdatedArtworkNoSpread(existing, body) ==
  [kind |-> "obj", title |-> body.title, date |-> body.date,
   description |-> body.description, image |-> Undefined, liked |-> Undefined]

\* { ...existing, title, date, description }
UpdatedArtwork(existing, body) ==
  [kind |-> "obj", title |-> body.title, date |-> body.date,
   description |-> body.description,
   image |-> IF existing.kind = "obj" THEN existing.image ELSE Undefined,
   liked |-> IF existing.kind = "obj" THEN existing.liked ELSE Undefined]

UpdateArtwork(req, existing, art, ast) ==
  IF art.kind # "array" THEN Throw(art, ast)
  \* artworks["length"] = {...} is a RangeError: invalid array length
  ELSE IF req.id = LengthKey THEN Throw(art, ast)
  ELSE Outcome(Assign(art, req.id, UpdatedArtwork(existing, req.body)),
               ast, TRUE, "redirect")

\* the handler without its unlink block: the image file is left behind
DeleteArtworkKeepFile(req, existing, art, ast) ==
  IF art.kind # "array" THEN Throw(art, ast)
  ELSE IF existing.kind \in {"undefined", "null"} THEN Throw(art, ast)
  ELSE Outcome(Splice(art, req.id), ast, TRUE, "redirect")

DeleteArtwork(req, existing, art, ast) ==
  IF art.kind # "array" THEN Throw(art, ast)
  \* artwork.image of undefined or null is a TypeError
  ELSE IF existing.kind \in {"undefined", "null"} THEN Throw(art, ast)
  ELSE Outcome(Splice(art, req.id),
               IF Truthy(existing.image) THEN ast \ {existing.image} ELSE ast,
               TRUE, "redirect")

\* the flag is flipped and saveArtwork() is not called
ToggleLikeNoSave(req, existing, art, ast) ==
  IF art.kind # "array" THEN Throw(art, ast)
  ELSE IF existing.kind = "obj"
  THEN Outcome(Assign(art, ReadKey(req),
                      [existing EXCEPT !.liked = Negate(existing.liked)]),
               ast, FALSE, "redirect")
  ELSE Outcome(art, ast, FALSE, "redirect")

ToggleLike(req, existing, art, ast) ==
  IF art.kind # "array" THEN Throw(art, ast)
  ELSE IF existing.kind = "obj"
  THEN Outcome(Assign(art, ReadKey(req),
                      [existing EXCEPT !.liked = Negate(existing.liked)]),
               ast, TRUE, "redirect")
  ELSE Outcome(art, ast, FALSE, "redirect")

\* GET /updateArtwork/:id, the read of one record for the edit form
GetArtwork(art, id) ==
  LET item == Lookup(art, id)
  IN  IF art.kind # "array" \/ item.kind \in {"undefined", "null"}
      THEN [status |-> "throw", title |-> Undefined, date |-> Undefined,
            description |-> Undefined]
      ELSE [status |-> "page", title |-> item.title, date |-> item.date,
            description |-> item.description]

ShowArtwork(req, art, ast) ==
  Outcome(art, ast, FALSE, GetArtwork(art, req.id).status)

(***************************************************************************)
(* Listing: GET / and GET /favourites                                      *)
(***************************************************************************)
\* the characters of the texts that forms carry
Chars(text) ==
  CASE text = "A" -> <<"A">>
    [] text = "B" -> <<"B">>
    [] text = "d1" -> <<"d", "1">>
    [] text = "d2" -> <<"d", "2">>
    [] text = "p1" -> <<"p", "1">>
    [] text = "p2" -> <<"p", "2">>
    [] OTHER -> <<>>

\* the search texts of req.query.search; absent or empty is ''
Queries == { <<>>, <<"a">>, <<"P">> }

UpperChars == <<"A", "B", "P">>
LowerChars == <<"a", "b", "p">>

\* String.prototype.toLowerCase
ToLowerCase(s) ==
  [i \in DOMAIN s |->
     IF \E k \in DOMAIN UpperChars : UpperChars[k] = s[i]
     THEN LowerChars[CHOOSE k \in DOMAIN UpperChars : UpperChars[k] = s[i]]
     ELSE s[i]]

\* String.prototype.includes
Includes(s, q) ==
  \E i \in 0..(Len(s) - Len(q)) : SubSeq(s, i + 1, i + Len(q)) = q

\* item.title.toLowerCase().includes(searchQuery.toLowerCase())
Matches(text, q) == Includes(ToLowerCase(Chars(text)), ToLowerCase(q))

\* x.toLowerCase() of undefined is a TypeError
IsText(v) == v \notin {Undefined, Null}

\* the positions .map and .filter visit: holes are skipped
Visited(art) == { i \in DOMAIN art.elems : art.elems[i].kind # "undefined" }

\* the filter callback of GET / throws on item: { ...null, index } and a record
\* without title have no title to lower-case
HomeThrows(item) == ~IsText(item.title)

HomeKeeps(item, q) == Matches(item.title, q)

\* the filter callback of GET /favourites; && and || evaluate left to right
FavouritesThrows(item, q) ==
  /\ Truthy(item.liked)
  /\ \/ ~IsText(item.title)
     \/ ~Matches(item.title, q) /\ ~IsText(item.description)

FavouritesKeeps(item, q) ==
  /\ Truthy(item.liked)
  /\ Matches(item.title, q) \/ Matches(item.description, q)

\* the items of a list in ascending index order: index is the position (from
\* 0) written into the links of the card, item the record shown
RECURSIVE Cards(_, _)
Cards(art, keep) ==
  IF keep = {} THEN <<>>
  ELSE LET i == CHOOSE m \in keep : \A n \in keep : n <= m
       IN  Append(Cards(art, keep \ {i}), [index |-> i - 1, item |-> art.elems[i]])

Listing(status, cards) == [status |-> status, cards |-> cards]

\* GET /?search=q
ListHome(art, q) ==
  IF art.kind # "array" THEN Listing("throw", <<>>)
  ELSE IF \E i \in Visited(art) : HomeThrows(art.elems[i])
  THEN Listing("throw", <<>>)
  ELSE Listing("page", Cards(art, {i \in Visited(art) : HomeKeeps(art.elems[i], q)}))

\* GET /favourites?search=q
ListFavourites(art, q) ==
  IF art.kind # "array" THEN Listing("throw", <<>>)
  ELSE IF \E i \in Visited(art) : FavouritesThrows(art.elems[i], q)
  THEN Listing("throw", <<>>)
  ELSE Listing("page",
               Cards(art, {i \in Visited(art) : FavouritesKeeps(art.elems[i], q)}))

\* the two list routes as requests: id carries the search text
ListArtworks(req, art, ast) ==
  Outcome(art, ast, FALSE,
          IF req.op = "home" THEN ListHome(art, req.id).status
          ELSE ListFavourites(art, req.id).status)

Handle(req, existing, art, ast) ==
  CASE req.op = "add" -> AddArtwork(req, art, ast)
    [] req.op = "update" -> UpdateArtwork(req, existing, art, ast)
    [] req.op = "delete" -> DeleteArtwork(req, existing, art, ast)
    [] req.op = "toggle" -> ToggleLike(req, existing, art, ast)
    [] req.op = "get" -> ShowArtwork(req, art, ast)
    [] req.op \in {"home", "favourites"} -> ListArtworks(req, art, ast)

(***************************************************************************)
(* The server                                                              *)
(***************************************************************************)
VARIABLES
  artworks,    \* the array `artworks` of the process
  disk,        \* the document data.json
  assets,      \* the files of public/uploads
  queue,       \* requests received whose handler has not started
  running,     \* handlers that have started and not finished
  resp,        \* the response of the handler that finished last, with the state
               \* that handler started in; none once the next handler starts
  nops,        \* requests received so far
  uploads,     \* uploads stored so far
  saveFailed   \* whether a call of saveArtwork() has thrown

vars == <<artworks, disk, assets, queue, running, resp, nops, uploads, saveFailed>>

Snapshot == [artworks |-> artworks, disk |-> disk, assets |-> assets]

NoRequest == Request("none", <<>>, NoBody, Null)

Response(req, status, save, pre) ==
  [op |-> req.op, id |-> req.id, body |-> req.body, image |-> req.image,
   status |-> status, save |-> save, pre |-> pre]

NoSnapshot == [artworks |-> EmptyArray, disk |-> AbsentDoc, assets |-> {}]

\* no response since the process started or the running handler began
NoResponse == Response(NoRequest, "none", "none", NoSnapshot)

Init ==
  /\ disk \in InitialDocs
  /\ artworks = LoadArtworks(disk)
  /\ assets = {}
  /\ queue = 0
  /\ running = {}
  /\ resp = NoResponse
  /\ nops = 0
  /\ uploads = 0
  /\ saveFailed = FALSE

\* handlers that await between their read and their write (fs.promises)
HandlerYieldsAsync == TRUE

\* Whether a handler gives control back to the event loop between reading
\* artworks[id] and responding.  Every handler is one synchronous function
\* (readFileSync, existsSync, unlinkSync, writeFileSync; no await, no callback).
HandlerYields == FALSE

\* A request reaches the server and waits for the event loop.
Arrive ==
  /\ nops < MaxOps
  /\ queue < MaxInflight
  /\ queue' = queue + 1
  /\ nops' = nops + 1
  /\ UNCHANGED <<artworks, disk, assets, running, resp, uploads, saveFailed>>

\* The event loop calls the handler of a waiting request; the handler reads
\* artworks[id].  Node runs one callback at a time, to completion.
Begin(req) ==
  /\ queue > 0
  /\ HandlerYields \/ running = {}
  /\ queue' = queue - 1
  /\ running' = running \cup
       {[req |-> req, existing |-> Lookup(artworks, ReadKey(req)), snap |-> Snapshot]}
  /\ resp' = NoResponse
  /\ UNCHANGED <<artworks, disk, assets, nops, uploads, saveFailed>>

\* upload.single('image') stores the file before the handler of POST /addArtwork
BeginUpload(body) ==
  /\ queue > 0
  /\ HandlerYields \/ running = {}
  /\ uploads < Len(UploadNames)
  /\ LET name == UploadNames[uploads + 1]
         req == Request("add", <<>>, body, name)
     IN  /\ assets' = assets \cup {name}
         /\ running' = running \cup
              {[req |-> req, existing |-> Undef,
                snap |-> [artworks |-> artworks, disk |-> disk, assets |-> assets']]}
  /\ uploads' = uploads + 1
  /\ queue' = queue - 1
  /\ resp' = NoResponse
  /\ UNCHANGED <<artworks, disk, nops, saveFailed>>

\* the exception of saveArtwork() is caught and the redirect is sent anyway
SaveResponseSwallowed(status, ok) == status

\* The response of a handler whose saveArtwork() returned (ok) or threw:
\* an exception leaves the handler before res.redirect and Express answers 500.
SaveResponse(status, ok) == IF ok THEN status ELSE "throw"

\* The handler runs to its response without saving.
FinishNoSave(f) ==
  LET out == Handle(f.req, f.existing, artworks, assets)
  IN  /\ f \in running
      /\ ~out.save
      /\ artworks' = out.art
      /\ assets' = out.ast
      /\ running' = running \ {f}
      /\ resp' = Response(f.req, out.status, "none", f.snap)
      /\ UNCHANGED <<disk, queue, nops, uploads, saveFailed>>

\* The handler changes the array, saveArtwork() writes data.json, it responds.
FinishSaved(f) ==
  LET out == Handle(f.req, f.existing, artworks, assets)
  IN  /\ f \in running
      /\ out.save
      /\ artworks' = out.art
      /\ assets' = out.ast
      /\ disk' = Stringify(out.art)
      /\ running' = running \ {f}
      /\ resp' = Response(f.req, SaveResponse(out.status, TRUE), "ok", f.snap)
      /\ UNCHANGED <<queue, nops, uploads, saveFailed>>

\* The handler changes the array and writeFileSync throws (disk full, no
\* permission): data.json is as before or holds part of the new document.
FinishSaveFailed(f, partial) ==
  LET out == Handle(f.req, f.existing, artworks, assets)
  IN  /\ f \in running
      /\ out.save
      /\ artworks' = out.art
      /\ assets' = out.ast
      /\ disk' = IF partial THEN InvalidDoc ELSE disk
      /\ saveFailed' = TRUE
      /\ running' = running \ {f}
      /\ resp' = Response(f.req, SaveResponse(out.status, FALSE), "failed", f.snap)
      /\ UNCHANGED <<queue, nops, uploads>>

\* The process is started again: requests in flight are lost, data.json is loaded.
Restart ==
  /\ running = {}
  /\ queue' = 0
  /\ artworks' = LoadArtworks(disk)
  /\ resp' = Response(Request("restart", <<>>, NoBody, Null), "none", "none", Snapshot)
  /\ UNCHANGED <<disk, assets, running, nops, uploads, saveFailed>>

Requests ==
  {Request("add", <<>>, b, Null) : b \in CreateBodies}
    \cup {Request("update", id, b, Null) : id \in Ids, b \in UpdateBodies}
    \cup {Request(op, id, NoBody, Null) : op \in {"delete", "toggle", "get"}, id \in Ids}
    \cup {Request(op, q, NoBody, Null) : op \in {"home", "favourites"}, q \in Queries}

Next ==
  \/ Arrive
  \/ \E req \in Requests : Begin(req)
  \/ \E b \in CreateBodies : BeginUpload(b)
  \/ \E f \in running : FinishNoSave(f)
  \/ \E f \in running : FinishSaved(f)
  \/ \E f \in running, partial \in BOOLEAN : FinishSaveFailed(f, partial)
  \/ Restart

Spec == Init /\ [][Next]_vars

(***************************************************************************)
(* Vocabulary of the properties                                            *)
(***************************************************************************)
\* id names a position of the array art: an integer in 0 .. length-1
ValidIndex(art, id) ==
  art.kind = "array" /\ IsArrayIndex(id) /\ NumVal(id) < Len(art.elems)

\* art is an array of records only: no hole, no null, no extra property
Dense(art) ==
  /\ art.kind = "array"
  /\ \A i \in DOMAIN art.elems : art.elems[i].kind = "obj"
  /\ art.props = NoProps

\* The document holds the records of the array, each at its position.
HoldsExactly(doc, art) ==
  /\ doc.kind = "array"
  /\ art.kind = "array"
  /\ Len(doc.elems) = Len(art.elems)
  /\ \A i \in DOMAIN art.elems :
       IF art.elems[i].kind = "obj" THEN doc.elems[i] = art.elems[i]
       ELSE doc.elems[i].kind # "obj"

\* a required form field that is empty or absent
Missing(v) == v = "" \/ v = Undefined

\* the request a response answers
Answered == Request(resp.op, resp.id, resp.body, resp.image)

\* what the handler of the answered request yields when it runs alone on the
\* state it started in
Alone ==
  Handle(Answered, Lookup(resp.pre.artworks, ReadKey(Answered)),
         resp.pre.artworks, resp.pre.assets)

Changed == artworks # resp.pre.artworks

(***************************************************************************)
(* C1: as long as no save has failed, data.json holds the records of the   *)
(* array unless the array is still as it was loaded; and after a Create,   *)
(* Update, Delete or ToggleLike request that changed the array, the save   *)
(* was made and data.json holds exactly the records of the array, in order.*)
(***************************************************************************)
C1_SavedAfterMutation ==
  ~saveFailed =>
    /\ artworks = LoadArtworks(disk) \/ HoldsExactly(disk, artworks)
    /\ (resp.op \in MutatingOps /\ Changed) =>
         resp.save = "ok" /\ HoldsExactly(disk, artworks)

C1_Witness ==
  /\ ~saveFailed
  /\ resp.op = "toggle" /\ resp.status = "redirect" /\ Changed
  /\ Len(artworks.elems) >= 1
  /\ artworks.elems[1].liked = "true"

(***************************************************************************)
(* C2: after Delete(k) at a valid position k of a collection of records,   *)
(* the collection is one shorter, the records before k are unchanged, each *)
(* record after k has moved down by one, and Get(k) returns the record     *)
(* formerly at k+1, or fails when k was the last position.                 *)
(***************************************************************************)
C2_IndexInvariant ==
  (resp.op = "delete" /\ Dense(resp.pre.artworks)
     /\ ValidIndex(resp.pre.artworks, resp.id)) =>
    LET old == resp.pre.artworks.elems
        new == artworks.elems
        k == NumVal(resp.id) + 1
        got == GetArtwork(artworks, resp.id)
    IN  /\ artworks.kind = "array"
        /\ Len(new) = Len(old) - 1
        /\ \A j \in 1..Len(new) : new[j] = IF j < k THEN old[j] ELSE old[j + 1]
        /\ IF k = Len(old) THEN got.status = "throw"
           ELSE /\ got.status = "page"
                /\ got.title = old[k + 1].title
                /\ got.date = old[k + 1].date
                /\ got.description = old[k + 1].description

C2_Witness ==
  /\ resp.op = "delete" /\ resp.id = <<"0">> /\ resp.status = "redirect"
  /\ Dense(resp.pre.artworks)
  /\ Len(resp.pre.artworks.elems) = 2
  /\ resp.pre.artworks.elems[1] # resp.pre.artworks.elems[2]
  /\ artworks.elems = <<resp.pre.artworks.elems[2]>>

(***************************************************************************)
(* C3: Update with an invalid index (at or beyond the length, negative or  *)
(* non-integral) fails, does not report success, and leaves the array and  *)
(* data.json unchanged.                                                    *)
(***************************************************************************)
C3_UpdateInvalidFails ==
  (resp.op = "update" /\ ~ValidIndex(resp.pre.artworks, resp.id)) =>
    /\ resp.status = "throw"
    /\ artworks = resp.pre.artworks
    /\ disk = resp.pre.disk

(***************************************************************************)
(* C4: Delete with an invalid index fails: nothing is removed, no asset is *)
(* deleted, no save is made, the array and data.json are unchanged.        *)
(***************************************************************************)
C4_DeleteInvalidFails ==
  (resp.op = "delete" /\ ~ValidIndex(resp.pre.artworks, resp.id)) =>
    /\ resp.status = "throw"
    /\ resp.save = "none"
    /\ artworks = resp.pre.artworks
    /\ assets = resp.pre.assets
    /\ disk = resp.pre.disk

(***************************************************************************)
(* C5: Update at a valid index holding a record leaves there a record with *)
(* the title, date and description of the request and with the image and   *)
(* liked of the record before the call.                                    *)
(***************************************************************************)
C5_UpdatePreserves ==
  (resp.op = "update" /\ ValidIndex(resp.pre.artworks, resp.id)
     /\ Lookup(resp.pre.artworks, resp.id).kind = "obj") =>
    LET old == Lookup(resp.pre.artworks, resp.id)
        new == Lookup(artworks, resp.id)
    IN  /\ new.kind = "obj"
        /\ new.title = resp.body.title
        /\ new.date = resp.body.date
        /\ new.description = resp.body.description
        /\ new.image = old.image
        /\ new.liked = old.liked

C5_Witness ==
  /\ resp.op = "update" /\ resp.id = <<"0">> /\ resp.status = "redirect"
  /\ Lookup(resp.pre.artworks, <<"0">>).image = "x1"
  /\ Lookup(resp.pre.artworks, <<"0">>).liked = "true"
  /\ Lookup(resp.pre.artworks, <<"0">>).title = "A"
  /\ Lookup(artworks, <<"0">>).title = "B"

(***************************************************************************)
(* C6: the handlers of two requests in flight never interleave.  While a   *)
(* handler is between its read of artworks[id] and its response, no other  *)
(* handler has started and nothing it read has changed; and the state a    *)
(* mutating handler leaves is the state it yields when run alone on the    *)
(* state it started in, so the outcome of two requests is that of running  *)
(* them one after the other.                                               *)
(***************************************************************************)
C6_Atomic ==
  /\ \A f \in running :
       /\ running = {f}
       /\ f.snap = Snapshot
       /\ f.existing = Lookup(artworks, ReadKey(f.req))
  /\ resp.op \in MutatingOps =>
       /\ artworks = Alone.art
       /\ assets = Alone.ast
       /\ IF ~Alone.save THEN disk = resp.pre.disk
          ELSE IF resp.save = "ok" THEN disk = Stringify(Alone.art)
          ELSE disk \in {resp.pre.disk, InvalidDoc}

\* a Delete is between its read and its response while another request waits
C6_Witness ==
  /\ queue >= 1
  /\ \E f \in running :
       /\ f.req.op = "delete"
       /\ f.existing.kind = "obj"
       /\ Len(artworks.elems) >= 2

(***************************************************************************)
(* C7: a mutating request is answered with success only when its save has  *)
(* been made, and a request whose save failed is answered with an error.   *)
(***************************************************************************)
C7_SuccessAfterSave ==
  resp.op \in MutatingOps =>
    /\ resp.save = "failed" => resp.status = "throw"
    /\ (resp.status = "redirect" /\ (Alone.save \/ Changed)) =>
         resp.save = "ok" /\ disk = Stringify(artworks)

C7_Witness ==
  /\ resp.op = "add"
  /\ resp.save = "failed"
  /\ resp.status = "throw"
  /\ Len(artworks.elems) = Len(resp.pre.artworks.elems) + 1
  /\ disk = resp.pre.disk

(***************************************************************************)
(* C8: after a save, loading data.json afresh reconstructs a sequence      *)
(* equal to the array in memory: same length, equal element at each        *)
(* position.                                                               *)
(***************************************************************************)
C8_RoundTrip ==
  resp.save = "ok" =>
    /\ LoadArtworks(disk).kind = "array"
    /\ LoadArtworks(disk).elems = artworks.elems

(***************************************************************************)
(* C9: loading never fails and always yields a sequence, the empty one     *)
(* when data.json is absent, is not valid JSON or is not an array.         *)
(***************************************************************************)
C9_LoadYieldsCollection ==
  /\ artworks.kind = "array"
  /\ (resp.op = "restart" /\ disk.kind # "array") => artworks = EmptyArray

(***************************************************************************)
(* C10: a Create whose title, date or description is empty or absent is    *)
(* rejected with the array and data.json unchanged and no save; a Create   *)
(* with the three fields present is never rejected, with or without image. *)
(***************************************************************************)
C10_ValidationRejects ==
  resp.op = "add" =>
    IF Missing(resp.body.title) \/ Missing(resp.body.date)
         \/ Missing(resp.body.description)
    THEN /\ resp.status = "message"
         /\ resp.save = "none"
         /\ artworks = resp.pre.artworks
         /\ disk = resp.pre.disk
    ELSE resp.status # "message"

C10_Witness ==
  /\ resp.op = "add"
  /\ resp.body.description = ""
  /\ resp.status = "message"
  /\ Len(artworks.elems) >= 1
  /\ artworks.elems[1].image = Null

(***************************************************************************)
(* C11: a successful Create on a collection of length n appends exactly    *)
(* one record, with the fields of the request and liked false, at position *)
(* n, leaves positions 0..n-1 unchanged, and data.json holds the new       *)
(* collection.                                                             *)
(***************************************************************************)
C11_CreateAppends ==
  (resp.op = "add" /\ resp.status = "redirect") =>
    LET old == resp.pre.artworks.elems
        new == artworks.elems
        n == Len(old)
    IN  /\ artworks.kind = "array"
        /\ Len(new) = n + 1
        /\ new[n + 1] = [kind |-> "obj", title |-> resp.body.title,
                         date |-> resp.body.date,
                         description |-> resp.body.description,
                         image |-> resp.image, liked |-> "false"]
        /\ \A j \in 1..n : new[j] = old[j]
        /\ artworks.props = resp.pre.artworks.props
        /\ resp.save = "ok"
        /\ HoldsExactly(disk, artworks)

C11_Witness ==
  /\ resp.op = "add" /\ resp.status = "redirect"
  /\ Len(resp.pre.artworks.elems) = 1
  /\ resp.image = "x2"
  /\ Len(artworks.elems) = 2
  /\ artworks.elems[2].image = "x2"
  /\ artworks.elems[1].image = "x1"

(***************************************************************************)
(* C12: ToggleLike with an invalid index (at or beyond the length,         *)
(* negative or non-integral) does not fail, changes nothing in the array   *)
(* and makes no save.                                                      *)
(***************************************************************************)
C12_ToggleInvalidNoOp ==
  (resp.op = "toggle" /\ resp.pre.artworks.kind = "array"
     /\ ~ValidIndex(resp.pre.artworks, resp.id)) =>
    /\ resp.status = "redirect"
    /\ resp.save = "none"
    /\ artworks = resp.pre.artworks
    /\ disk = resp.pre.disk

(***************************************************************************)
(* C13: ToggleLike at a valid index flips liked there, and a second        *)
(* ToggleLike of the same index right after it gives back the array the    *)
(* first one started from, and saves it.                                   *)
(***************************************************************************)
C13_TogglePairing ==
  (resp.op = "toggle" /\ ValidIndex(resp.pre.artworks, resp.id)) =>
    LET old == Lookup(resp.pre.artworks, resp.id)
        new == Lookup(artworks, resp.id)
        again == Handle(Answered, Lookup(artworks, ReadKey(Answered)),
                        artworks, assets)
    IN  /\ new.liked \in {"true", "false"}
        /\ new.liked # old.liked
        /\ again.save
        /\ again.art = resp.pre.artworks

(***************************************************************************)
(* C14: Delete of a record whose image is x leaves no asset x in the       *)
(* store and removes nothing else from it; it removes the record and       *)
(* succeeds (unless the save itself fails) also when x was already absent; *)
(* Delete of a record without image deletes no asset.                      *)
(***************************************************************************)
C14_DeleteCleansAsset ==
  (resp.op = "delete" /\ ValidIndex(resp.pre.artworks, resp.id)
     /\ Lookup(resp.pre.artworks, resp.id).kind = "obj") =>
    LET old == Lookup(resp.pre.artworks, resp.id)
    IN  /\ Len(artworks.elems) = Len(resp.pre.artworks.elems) - 1
        /\ resp.save # "none"
        /\ resp.save = "ok" => resp.status = "redirect"
        /\ IF old.image \in {Null, Undefined} THEN assets = resp.pre.assets
           ELSE /\ old.image \notin assets
                /\ assets = resp.pre.assets \ {old.image}

\* the record's asset was already gone (an earlier Delete removed the file,
\* its save failed, and the process was started again) and Delete succeeds
C14_Witness ==
  /\ resp.op = "delete" /\ resp.id = <<"0">> /\ resp.status = "redirect"
  /\ Lookup(resp.pre.artworks, <<"0">>).image = "x1"
  /\ "x1" \notin resp.pre.assets
  /\ artworks.elems = <<>>
  /\ disk = ArrayDoc(<<>>)

\* the text v contains the search text q, letter case aside; the empty search
\* text is contained in everything
Contains(v, q) == q = <<>> \/ (IsText(v) /\ Matches(v, q))

\* the pairs (i, collection[i]) of the positions in want, in ascending order
RECURSIVE Pairs(_, _)
Pairs(elems, want) ==
  IF want = {} THEN <<>>
  ELSE LET i == CHOOSE m \in want : \A n \in want : n <= m
       IN  Append(Pairs(elems, want \ {i}), [index |-> i - 1, item |-> elems[i]])

\* Get(i) returns the record of the pair
GetReturns(art, pair) ==
  LET got == GetArtwork(art, NumStr(pair.index))
  IN  /\ got.status = "page"
      /\ got.title = pair.item.title
      /\ got.date = pair.item.date
      /\ got.description = pair.item.description

(***************************************************************************)
(* C15: each list is computed from the current array and returns, in       *)
(* ascending order, exactly the pairs (i, collection[i]) whose record      *)
(* satisfies the predicate of the view (home: the title contains the       *)
(* search text; favourites: liked, and the title or the description        *)
(* contains it); the empty search text matches every record; Get(i) of a   *)
(* returned pair returns that record.                                      *)
(***************************************************************************)
C15_ListCorrect ==
  artworks.kind = "array" =>
    \A q \in Queries :
      LET recs == { i \in DOMAIN artworks.elems : artworks.elems[i].kind = "obj" }
          home == ListHome(artworks, q)
          fav == ListFavourites(artworks, q)
      IN  /\ home.status = "page"
          /\ home.cards =
               Pairs(artworks.elems,
                     { i \in recs : Contains(artworks.elems[i].title, q) })
          /\ fav.status = "page"
          /\ fav.cards =
               Pairs(artworks.elems,
                     { i \in recs :
                         /\ artworks.elems[i].liked = "true"
                         /\ \/ Contains(artworks.elems[i].title, q)
                            \/ Contains(artworks.elems[i].description, q) })
          /\ \A k \in DOMAIN home.cards : GetReturns(artworks, home.cards[k])
          /\ \A k \in DOMAIN fav.cards : GetReturns(artworks, fav.cards[k])

(***************************************************************************)
(* C16: Get(index) fails when the index is outside the bounds of the       *)
(* array (also negative or non-integral) and returns the record at that    *)
(* position otherwise; the array and data.json are unchanged either way.   *)
(***************************************************************************)
C16_GetChecksIndex ==
  resp.op = "get" =>
    /\ artworks = resp.pre.artworks
    /\ disk = resp.pre.disk
    /\ IF ValidIndex(resp.pre.artworks, resp.id)
       THEN /\ resp.status = "page"
            /\ Lookup(artworks, resp.id).kind = "obj"
            /\ GetReturns(artworks,
                          [index |-> NumVal(resp.id), item |-> Lookup(artworks, resp.id)])
       ELSE resp.status = "throw"

\* an artwork record as the data model describes it
WellFormed(rec) ==
  /\ rec.kind = "obj"
  /\ IsText(rec.title) /\ rec.title # ""
  /\ IsText(rec.date) /\ rec.date # ""
  /\ IsText(rec.description) /\ rec.description # ""
  /\ rec.image # Undefined /\ rec.image # ""
  /\ rec.liked \in {"true", "false"}

(***************************************************************************)
(* C17: starting from an empty or well-formed data.json, every position of *)
(* the array holds a record (no hole, no null) with non-empty title, date  *)
(* and description, an image that is a reference or null, and a boolean    *)
(* liked, whatever requests were made.                                     *)
(***************************************************************************)
C17_WellFormed ==
  artworks.kind = "array" =>
    \A i \in DOMAIN artworks.elems : WellFormed(artworks.elems[i])

(***************************************************************************)
(* C18: Update(i) and ToggleLike(i) never change the length of the array   *)
(* nor a record at a position other than i; only Create makes the array    *)
(* longer and only Delete makes it shorter, each by exactly one.           *)
(***************************************************************************)
C18_Frame ==
  (resp.op \in MutatingOps \cup {"get", "home", "favourites"}
     /\ resp.pre.artworks.kind = "array") =>
    LET old == resp.pre.artworks.elems
        new == artworks.elems
    IN  /\ resp.op \in {"update", "toggle"} =>
             /\ Len(new) = Len(old)
             /\ \A j \in DOMAIN old :
                  (IsArrayIndex(resp.id) /\ j = NumVal(resp.id) + 1) \/ new[j] = old[j]
        /\ Len(new) > Len(old) => (resp.op = "add" /\ Len(new) = Len(old) + 1)
        /\ Len(new) < Len(old) => (resp.op = "delete" /\ Len(new) = Len(old) - 1)

\* the image references held by the elements of a sequence
ImageRefs(elems) ==
  { elems[i].image : i \in { j \in DOMAIN elems : Truthy(elems[j].image) } }

(***************************************************************************)
(* C19: with every upload stored under a fresh name, once the Create and   *)
(* Delete requests made so far are answered, every asset of the store is   *)
(* the image of some record of the array.                                  *)
(***************************************************************************)
C19_NoOrphanAssets ==
  (running = {} /\ artworks.kind = "array") =>
    assets \subseteq ImageRefs(artworks.elems)

(***************************************************************************)
(* C20: every image reference in data.json names an asset that exists in   *)
(* the store, in every reachable state, also after a Delete whose save     *)
(* failed.                                                                 *)
(***************************************************************************)
C20_NoDanglingOnDisk ==
  disk.kind = "array" => ImageRefs(disk.elems) \subseteq assets

====
